---- MODULE Spec2Model ----
(***************************************************************************)
(* A model of the Notion cache (NotionCache, NotionManager.get_page,       *)
(* NotionManager.get_block_children), of the page summarizer               *)
(* (NotionManager.generate_page_summary) and of the simplification of the  *)
(* blocks of a page (NotionManager.get_page_content_simplified) of         *)
(* src/src/notion_api.py, and of the work blocks of a day                  *)
(* (GoogleCalendarManager.create_work_blocks) of                           *)
(* src/src/google_calendar_api.py.                                         *)
(*                                                                         *)
(* Time is counted in whole hours since an epoch.  A JSON value is a       *)
(* sequence of numbers: << >> stands for the empty list [] and the empty   *)
(* object {}, both of which Python treats as false in a condition.         *)
(* A string is a sequence of one-character strings.                        *)
(***************************************************************************)
EXTENDS Integers, Sequences, FiniteSets, TLC

VARIABLES files, now, ret, hist, dir_exists, blocks, max_length, pc, paragraphs, summary,
          idx, picked, before, page_blocks, max_blocks, simplified_blocks,
          flat_i, flat_pc, first_run, work_args, current_time,
          created_events, work_pc

cacheVars == <<files, now, ret, hist, dir_exists>>

sumVars == <<blocks, max_length, pc, paragraphs, summary, idx, picked, before>>

flatVars ==
    <<page_blocks, max_blocks, simplified_blocks, flat_i, flat_pc, first_run>>

workVars == <<work_args, current_time, created_events, work_pc>>

vars == <<files, now, ret, hist, dir_exists, blocks, max_length, pc, paragraphs, summary,
          idx, picked, before, page_blocks, max_blocks, simplified_blocks,
          flat_i, flat_pc, first_run, work_args, current_time,
          created_events, work_pc>>

----------------------------------------------------------------------------
(* Bounds of the model *)

\* The clock runs from 0 to MaxTime hours.
MaxTime == 48

\* The cache is valid for 24 hours: timedelta(hours=24).
TTL == 24

\* Pages of up to MaxRawBlocks blocks of every shape are simplified, and
\* pages of up to MaxPageBlocks blocks.
MaxRawBlocks == 2

MaxPageBlocks == 51

\* def get_page_content_simplified(self, page_id, max_blocks: int = 50)
DEFAULT_MAX_BLOCKS == 50

\* The hours that pass between two operations when the clock is seen to
\* move: one hour short of the time to live, or exactly the time to live
\* (so that ages of 0, 1, 22, 23, 24, 25 and more hours all occur).
TickSteps == {TTL - 1, TTL}

\* The page ids the callers use.
PageIds == {<<"p1">>}

\* The JSON values the remote service answers with.
Values == {<< >>, <<1>>, <<2>>}

----------------------------------------------------------------------------
(* Python values *)

\* Python's None, and a value that is not None.
None == [none |-> TRUE, val |-> << >>]

Some(v) == [none |-> FALSE, val |-> v]

\* bool(x): None, [] and {} are false.
Truthy(x) == ~x.none /\ Len(x.val) > 0

\* How a call ends: it returns a value or raises an exception.
Return(x) == [outcome |-> "return", value |-> x]

Raise(e) == [outcome |-> e, value |-> None]

\* A slip: the date is written without the hour (date.isoformat()).
isoformat_DateOnly(t) == <<t \div 24, 0>>

\* datetime.isoformat() and datetime.fromisoformat(): a date and an hour.
isoformat(t) == <<t \div 24, t % 24>>

fromisoformat(s) == s[1] * 24 + s[2]

----------------------------------------------------------------------------
(* The cache directory *)

\* f"{block_id}_children"
children_key(block_id) == block_id \o <<"_children">>

Keys == PageIds \cup {children_key(b) : b \in PageIds}

\* A slip: every key is kept in the same file.
get_cache_path_SingleFile(page_id) == <<".notion_cache", "cache", ".json">>

\* os.path.join(self.cache_dir, f"{page_id}.json")
get_cache_path(page_id) == <<".notion_cache">> \o page_id \o <<".json">>

Paths == {get_cache_path(k) : k \in Keys}

\* A path with no file, a file whose text is not JSON (a write that was cut
\* short leaves one), and a file that holds the JSON object json.dump wrote.
NoFile == [kind |-> "nofile", content |-> << >>, cached_at |-> <<0, 0>>]

BadFile == [kind |-> "badjson", content |-> << >>, cached_at |-> <<0, 0>>]

JsonFile(content, cached_at) ==
    [kind |-> "json", content |-> content, cached_at |-> cached_at]

\* A slip: the age is taken the wrong way round (last_updated - now).
get_cached_page_AgeReversed(fs, page_id, t) ==
    LET f == fs[get_cache_path(page_id)] IN
    IF f.kind = "nofile" THEN Return(None)
    ELSE IF f.kind = "badjson" THEN Raise("JSONDecodeError")
    ELSE IF fromisoformat(f.cached_at) - t < TTL
         THEN Return(Some(f.content))
         ELSE Return(None)

\* A slip: an entry exactly 24 hours old still counts as valid (<= for <).
get_cached_page_Inclusive(fs, page_id, t) ==
    LET f == fs[get_cache_path(page_id)] IN
    IF f.kind = "nofile" THEN Return(None)
    ELSE IF f.kind = "badjson" THEN Raise("JSONDecodeError")
    ELSE IF t - (f.cached_at[1] * 24 + f.cached_at[2]) <= TTL
         THEN Return(Some(f.content))
         ELSE Return(None)

\* A slip: the age of the entry is not looked at.
get_cached_page_NoExpiry(fs, page_id, t) ==
    LET f == fs[get_cache_path(page_id)] IN
    IF f.kind = "nofile" THEN Return(None)
    ELSE IF f.kind = "badjson" THEN Raise("JSONDecodeError")
    ELSE Return(Some(f.content))

\* NotionCache.get_cached_page, reading the directory fs at time t.
get_cached_page(fs, page_id, t) ==
    LET f == fs[get_cache_path(page_id)] IN
    IF f.kind = "nofile" THEN Return(None)
    ELSE IF f.kind = "badjson" THEN Raise("JSONDecodeError")
    ELSE IF t - fromisoformat(f.cached_at) < TTL
         THEN Return(Some(f.content))
         ELSE Return(None)

\* NotionCache.update_cache: the directory after the write at time t.
update_cache(fs, page_id, content, t) ==
    [fs EXCEPT ![get_cache_path(page_id)] = JsonFile(content, isoformat(t))]

\* NotionCache.get_page_content.
get_page_content(fs, page_id, force_refresh, t) ==
    IF ~force_refresh
    THEN LET cached_content == get_cached_page(fs, page_id, t) IN
         IF cached_content.outcome # "return" THEN cached_content
         ELSE IF Truthy(cached_content.value) THEN cached_content
         ELSE Return(None)
    ELSE Return(None)

----------------------------------------------------------------------------
(* The remote service and the two cached fetches *)

\* What requests.get answers: a JSON body, or a failure that
\* raise_for_status turns into an exception.
Responses ==
    {[ok |-> TRUE, body |-> v] : v \in Values} \cup {[ok |-> FALSE, body |-> << >>]}

\* A slip: force_refresh is not passed on and not looked at.
get_page_IgnoresForce(fs, page_id, force_refresh, resp, t) ==
    LET cached_page == get_page_content(fs, page_id, FALSE, t) IN
    IF cached_page.outcome # "return"
    THEN [fs |-> fs, end |-> cached_page, fetch |-> "none"]
    ELSE IF Truthy(cached_page.value)
    THEN [fs |-> fs, end |-> cached_page, fetch |-> "none"]
    ELSE IF ~resp.ok
    THEN [fs |-> fs, end |-> Raise("HTTPError"), fetch |-> "fail"]
    ELSE [fs |-> update_cache(fs, page_id, resp.body, t),
          end |-> Return(Some(resp.body)), fetch |-> "ok"]

\* NotionManager.get_page: the directory afterwards, how the call ends, and
\* whether the remote service was called ("none", "ok" or "fail").
get_page(fs, page_id, force_refresh, resp, t) ==
    LET cached_page == get_page_content(fs, page_id, force_refresh, t) IN
    IF cached_page.outcome # "return"
    THEN [fs |-> fs, end |-> cached_page, fetch |-> "none"]
    ELSE IF Truthy(cached_page.value) /\ ~force_refresh
    THEN [fs |-> fs, end |-> cached_page, fetch |-> "none"]
    ELSE IF ~resp.ok
    THEN [fs |-> fs, end |-> Raise("HTTPError"), fetch |-> "fail"]
    ELSE LET page_data == resp.body IN
         [fs |-> update_cache(fs, page_id, page_data, t),
          end |-> Return(Some(page_data)), fetch |-> "ok"]

\* A slip: the cache is written before raise_for_status is called.
get_block_children_StoresFirst(fs, block_id, force_refresh, resp, t) ==
    LET cache_key == block_id \o <<"_children">>
        cached_blocks == get_page_content(fs, cache_key, force_refresh, t)
    IN
    IF cached_blocks.outcome # "return"
    THEN [fs |-> fs, end |-> cached_blocks, fetch |-> "none"]
    ELSE IF Truthy(cached_blocks.value) /\ ~force_refresh
    THEN [fs |-> fs, end |-> cached_blocks, fetch |-> "none"]
    ELSE IF ~resp.ok
    THEN [fs |-> update_cache(fs, cache_key, resp.body, t),
          end |-> Raise("HTTPError"), fetch |-> "fail"]
    ELSE [fs |-> update_cache(fs, cache_key, resp.body, t),
          end |-> Return(Some(resp.body)), fetch |-> "ok"]

\* NotionManager.get_block_children, with cache_key = f"{block_id}_children".
get_block_children(fs, block_id, force_refresh, resp, t) ==
    LET cache_key == children_key(block_id)
        cached_blocks == get_page_content(fs, cache_key, force_refresh, t)
    IN
    IF cached_blocks.outcome # "return"
    THEN [fs |-> fs, end |-> cached_blocks, fetch |-> "none"]
    ELSE IF Truthy(cached_blocks.value) /\ ~force_refresh
    THEN [fs |-> fs, end |-> cached_blocks, fetch |-> "none"]
    ELSE IF ~resp.ok
    THEN [fs |-> fs, end |-> Raise("HTTPError"), fetch |-> "fail"]
    ELSE LET blocks_data == resp.body IN
         [fs |-> update_cache(fs, cache_key, blocks_data, t),
          end |-> Return(Some(blocks_data)), fetch |-> "ok"]

----------------------------------------------------------------------------
(* The state machine of the cache *)

\* hist[k] remembers, for the claims, what happened to key k: the last
\* completed write of its file (put, val, at) and, in fetchAt, the hour of
\* the last call of the remote service for k, as long as that call was made
\* by an unforced get_page or get_block_children, succeeded, and only
\* unforced calls and reads of k followed it (-1 otherwise).
NoHist == [put |-> FALSE, val |-> << >>, at |-> 0, fetchAt |-> -1]

\* ret describes the step just taken: the operation, its arguments, the
\* directory and the history of its key before the step, and how it ended.
Idle ==
    [op |-> "idle", key |-> << >>, force |-> FALSE,
     pre |-> [p \in Paths |-> NoFile], dir |-> TRUE, was |-> NoHist,
     fetch |-> "none", body |-> << >>, end |-> Return(None)]

Call(op, key, force, body, fetch, end) ==
    [op |-> op, key |-> key, force |-> force, pre |-> files,
     dir |-> dir_exists, was |-> hist[key],
     fetch |-> fetch, body |-> body, end |-> end]

\* The history of a key after a cached fetch that ended as r.
Fetched(h, force, body, r, t) ==
    IF r.fetch = "ok"
    THEN [put |-> TRUE, val |-> body, at |-> t,
          fetchAt |-> IF force THEN -1 ELSE t]
    ELSE IF r.fetch = "fail" THEN [h EXCEPT !.fetchAt = -1]
    ELSE h

CacheInit ==
    /\ files = [p \in Paths |-> NoFile]
    /\ now = 0
    /\ ret = Idle
    /\ hist = [k \in Keys |-> NoHist]
    /\ dir_exists = TRUE

\* The clock advances.
Tick(d) ==
    /\ now + d <= MaxTime
    /\ now' = now + d
    /\ ret' = Idle
    /\ UNCHANGED <<files, hist, dir_exists>>
    /\ UNCHANGED sumVars
    /\ UNCHANGED flatVars
    /\ UNCHANGED workVars

\* A slip: an entry found expired is removed from the directory.
GetCachedPage_DeletesExpired(k) ==
    /\ ret' = Call("get_cached_page", k, FALSE, << >>, "none",
                   get_cached_page(files, k, now))
    /\ files' = IF ret'.end = Return(None)
                THEN [files EXCEPT ![get_cache_path(k)] = NoFile]
                ELSE files
    /\ UNCHANGED <<now, hist, dir_exists>>
    /\ UNCHANGED sumVars
    /\ UNCHANGED flatVars
    /\ UNCHANGED workVars

\* NotionCache.get_cached_page called on its own: the file is only read.
GetCachedPage(k) ==
    /\ ret' = Call("get_cached_page", k, FALSE, << >>, "none",
                   get_cached_page(files, k, now))
    /\ UNCHANGED <<files, now, hist, dir_exists>>
    /\ UNCHANGED sumVars
    /\ UNCHANGED flatVars
    /\ UNCHANGED workVars

\* A variant: update_cache makes the directory anew
\* (os.makedirs) before it opens the file.
UpdateCache_MakesDir(k, v) ==
    /\ files' = update_cache(files, k, v, now)
    /\ ret' = Call("update_cache", k, FALSE, v, "none", Return(None))
    /\ hist' = [hist EXCEPT ![k] =
                   [put |-> TRUE, val |-> v, at |-> now, fetchAt |-> -1]]
    /\ dir_exists' = TRUE
    /\ UNCHANGED now
    /\ UNCHANGED sumVars
    /\ UNCHANGED flatVars
    /\ UNCHANGED workVars

\* NotionCache.update_cache called on its own.  open(cache_path, 'w')
\* raises FileNotFoundError when the directory of the path is not there.
UpdateCache(k, v) ==
    /\ IF dir_exists
       THEN /\ files' = update_cache(files, k, v, now)
            /\ ret' = Call("update_cache", k, FALSE, v, "none", Return(None))
            /\ hist' = [hist EXCEPT ![k] =
                           [put |-> TRUE, val |-> v, at |-> now,
                            fetchAt |-> -1]]
       ELSE /\ ret' = Call("update_cache", k, FALSE, v, "none",
                           Raise("FileNotFoundError"))
            /\ UNCHANGED <<files, hist>>
    /\ UNCHANGED <<now, dir_exists>>
    /\ UNCHANGED sumVars
    /\ UNCHANGED flatVars
    /\ UNCHANGED workVars

\* update_cache cut short after open(cache_path, 'w') truncated the file
\* and before json.dump finished: the file is left with text that is not JSON.
UpdateCacheCutShort(k) ==
    /\ dir_exists
    /\ files' = [files EXCEPT ![get_cache_path(k)] = BadFile]
    /\ ret' = Idle
    /\ hist' = [hist EXCEPT ![k] = NoHist]
    /\ UNCHANGED <<now, dir_exists>>
    /\ UNCHANGED sumVars
    /\ UNCHANGED flatVars
    /\ UNCHANGED workVars

GetPageContent(k, force) ==
    /\ ret' = Call("get_page_content", k, force, << >>, "none",
                   get_page_content(files, k, force, now))
    /\ UNCHANGED <<files, now, hist, dir_exists>>
    /\ UNCHANGED sumVars
    /\ UNCHANGED flatVars
    /\ UNCHANGED workVars

\* NotionManager.get_page.  Without the directory the update_cache that
\* follows a fetch raises and the exception leaves get_page.
GetPage(p, force, resp) ==
    LET r == get_page(files, p, force, resp, now)
        lost == r.fetch = "ok" /\ ~dir_exists
    IN
    /\ files' = IF lost THEN files ELSE r.fs
    /\ ret' = Call("get_page", p, force, resp.body, r.fetch,
                   IF lost THEN Raise("FileNotFoundError") ELSE r.end)
    /\ hist' = IF lost THEN hist
               ELSE [hist EXCEPT ![p] = Fetched(@, force, resp.body, r, now)]
    /\ UNCHANGED <<now, dir_exists>>
    /\ UNCHANGED sumVars
    /\ UNCHANGED flatVars
    /\ UNCHANGED workVars

GetBlockChildren(b, force, resp) ==
    LET r == get_block_children(files, b, force, resp, now)
        k == children_key(b)
        lost == r.fetch = "ok" /\ ~dir_exists
    IN
    /\ files' = IF lost THEN files ELSE r.fs
    /\ ret' = Call("get_block_children", k, force, resp.body, r.fetch,
                   IF lost THEN Raise("FileNotFoundError") ELSE r.end)
    /\ hist' = IF lost THEN hist
               ELSE [hist EXCEPT ![k] = Fetched(@, force, resp.body, r, now)]
    /\ UNCHANGED <<now, dir_exists>>
    /\ UNCHANGED sumVars
    /\ UNCHANGED flatVars
    /\ UNCHANGED workVars

\* The cache directory is removed from outside the program, with the
\* files in it.
RemoveDir ==
    /\ dir_exists
    /\ dir_exists' = FALSE
    /\ files' = [p \in Paths |-> NoFile]
    /\ hist' = [k \in Keys |-> NoHist]
    /\ ret' = Idle
    /\ UNCHANGED now
    /\ UNCHANGED sumVars
    /\ UNCHANGED flatVars
    /\ UNCHANGED workVars

\* NotionCache.__init__ once more: os.makedirs(cache_dir, exist_ok=True)
\* makes the directory if it is not there and leaves the files alone.
Construct ==
    /\ dir_exists' = TRUE
    /\ ret' = Idle
    /\ UNCHANGED <<files, now, hist>>
    /\ UNCHANGED sumVars
    /\ UNCHANGED flatVars
    /\ UNCHANGED workVars

CacheNext ==
    \/ \E d \in TickSteps : Tick(d)
    \/ \E k \in Keys : GetCachedPage(k)
    \/ \E k \in Keys, v \in Values : UpdateCache(k, v)
    \/ \E k \in Keys : UpdateCacheCutShort(k)
    \/ \E k \in Keys, force \in BOOLEAN : GetPageContent(k, force)
    \/ \E p \in PageIds, force \in BOOLEAN, resp \in Responses : GetPage(p, force, resp)
    \/ \E b \in PageIds, force \in BOOLEAN, resp \in Responses :
          GetBlockChildren(b, force, resp)

----------------------------------------------------------------------------
(* Strings *)

NL == "\n"

\* str.lower(), letter by letter.
UpperCase == <<"A", "B", "C", "D", "E", "F", "G", "H", "I", "J", "K", "L", "M",
               "N", "O", "P", "Q", "R", "S", "T", "U", "V", "W", "X", "Y", "Z">>

LowerCase == <<"a", "b", "c", "d", "e", "f", "g", "h", "i", "j", "k", "l", "m",
               "n", "o", "p", "q", "r", "s", "t", "u", "v", "w", "x", "y", "z">>

lower(s) ==
    [i \in 1..Len(s) |->
        IF \E j \in 1..26 : UpperCase[j] = s[i]
        THEN LowerCase[CHOOSE j \in 1..26 : UpperCase[j] = s[i]]
        ELSE s[i]]

\* sub in s: sub occurs in s as a run of consecutive characters.
Contains(s, sub) ==
    \E i \in 0..(Len(s) - Len(sub)) :
        \A j \in 1..Len(sub) : s[i + j] = sub[j]

\* sep.join(parts)
RECURSIVE join(_, _)
join(sep, parts) ==
    IF Len(parts) = 0 THEN << >>
    ELSE IF Len(parts) = 1 THEN parts[1]
    ELSE parts[1] \o sep \o join(sep, Tail(parts))

\* A slip: the text is not split, it comes back as one part.
split_Whole(s, sep) == <<s>>

\* s.split(sep) for a separator of one character.
RECURSIVE split(_, _)
split(s, sep) ==
    IF \A i \in 1..Len(s) : s[i] # sep THEN <<s>>
    ELSE LET i == CHOOSE n \in 1..Len(s) :
                      s[n] = sep /\ \A m \in 1..(n - 1) : s[m] # sep
         IN <<SubSeq(s, 1, i - 1)>> \o split(SubSeq(s, i + 1, Len(s)), sep)

----------------------------------------------------------------------------
(* NotionManager.generate_page_summary *)

keywords ==
    << <<"i", "m", "p", "o", "r", "t", "a", "n", "t">>,
       <<"k", "e", "y">>,
       <<"m", "a", "i", "n">>,
       <<"c", "r", "i", "t", "i", "c", "a", "l">>,
       <<"e", "s", "s", "e", "n", "t", "i", "a", "l">>,
       <<"c", "o", "n", "c", "l", "u", "s", "i", "o", "n">> >>

\* A slip: the summary starts empty, the first paragraph is not put in.
first_summary_Empty(ps) == << >>

\* summary = paragraphs[0] if paragraphs else ""
first_summary(ps) == IF Len(ps) > 0 THEN ps[1] ELSE << >>

\* A slip: the keyword is looked for at the start of the paragraph only.
has_keyword_Prefix(paragraph) ==
    \E n \in 1..Len(keywords) :
        /\ Len(keywords[n]) <= Len(paragraph)
        /\ SubSeq(lower(paragraph), 1, Len(keywords[n])) = keywords[n]

\* any(keyword in paragraph.lower() for keyword in keywords)
has_keyword(paragraph) ==
    \E n \in 1..Len(keywords) : Contains(lower(paragraph), keywords[n])

\* A slip: the blocks without content are not left out.
text_blocks_KeepsEmpty(bs) == [i \in 1..Len(bs) |-> bs[i].content]

\* The contents of the blocks whose content is not empty.
text_blocks(bs) ==
    LET kept == SelectSeq(bs, LAMBDA b : b.content # << >>) IN
    [i \in 1..Len(kept) |-> kept[i].content]

full_text(bs) == join(<<NL>>, text_blocks(bs))

\* The for loop over paragraphs[1:] goes on to the paragraph at position n
\* (counted from 1): there is one, and the break is not taken.
keyword_loop_runs(sum, ps, n, max) ==
    n <= Len(ps) /\ ~(Len(sum) >= max)

\* A slip: a keyword paragraph is added without the length test.
keyword_turn_NoLengthTest(sum, paragraph, max) ==
    IF has_keyword(paragraph) THEN sum \o <<NL>> \o paragraph ELSE sum

\* A slip: the keyword paragraph is put in front of the summary.
keyword_turn_Prepends(sum, paragraph, max) ==
    IF has_keyword(paragraph) /\ Len(sum) + Len(paragraph) + 1 <= max
    THEN paragraph \o <<NL>> \o sum ELSE sum

\* One turn of the for loop: a paragraph with a keyword is added if it fits.
keyword_turn(sum, paragraph, max) ==
    IF has_keyword(paragraph) /\ Len(sum) + Len(paragraph) + 1 <= max
    THEN sum \o <<NL>> \o paragraph
    ELSE sum

\* A slip: the while loop does not look at the length.
second_loop_runs_NoBudget(sum, ps, n, max) == n <= Len(ps)

\* The condition of the while loop that adds more paragraphs.
second_loop_runs(sum, ps, n, max) ==
    n <= Len(ps) /\ Len(sum) + Len(ps[n]) + 1 <= max

\* A slip: the paragraph is added without looking for it in the summary.
second_turn_NoDedupe(sum, paragraph) == sum \o <<NL>> \o paragraph

\* One turn of the while loop: a paragraph not in the summary is added.
second_turn(sum, paragraph) ==
    IF ~Contains(sum, paragraph) THEN sum \o <<NL>> \o paragraph ELSE sum

----------------------------------------------------------------------------
(* The state machine of the summarizer *)

\* The most blocks a page has, and the largest max_length asked for.
MaxBlocks == 4

MaxMaxLength == 9

\* The contents a block may have: "", "a", "ab", "key", "Keys", "b" newline "c".
Contents ==
    { << >>, <<"a">>, <<"a", "b">>, <<"k", "e", "y">>, <<"K", "e", "y", "s">>,
      <<"b", NL, "c">> }

SimplifiedBlocks == {[type |-> "paragraph", content |-> c] : c \in Contents}

BlockLists == UNION {[1..n -> SimplifiedBlocks] : n \in 0..MaxBlocks}

\* A page of four longer paragraphs: "Intro", "Detail one",
\* "This is a key finding", "Detail two".
Intro == <<"I", "n", "t", "r", "o">>

DetailOne == <<"D", "e", "t", "a", "i", "l", " ", "o", "n", "e">>

KeyFinding ==
    <<"T", "h", "i", "s", " ", "i", "s", " ", "a", " ", "k", "e", "y", " ",
      "f", "i", "n", "d", "i", "n", "g">>

DetailTwo == <<"D", "e", "t", "a", "i", "l", " ", "t", "w", "o">>

ExampleBlocks ==
    [n \in 1..4 |->
        [type |-> "paragraph",
         content |-> <<Intro, DetailOne, KeyFinding, DetailTwo>>[n]]]

\* The summarizer is not running.
SumOff ==
    /\ blocks = << >>
    /\ max_length = 0
    /\ pc = "off"
    /\ paragraphs = << >>
    /\ summary = << >>
    /\ idx = 0
    /\ picked = << >>
    /\ before = << >>

\* generate_page_summary is called on a page with the blocks bs.
SumInit ==
    /\ \/ blocks \in BlockLists /\ max_length \in 0..MaxMaxLength
       \/ blocks = ExampleBlocks /\ max_length = 30
    /\ pc = "start"
    /\ paragraphs = << >>
    /\ summary = << >>
    /\ idx = 0
    /\ picked = << >>
    /\ before = << >>

\* picked lists the paragraphs added so far, each with the loop that added
\* it and its position in paragraphs (counted from 1); before is the
\* summary as it was before the last turn of a loop.
Picked(loop, n, old, new) ==
    IF new # old THEN Append(picked, [loop |-> loop, pos |-> n]) ELSE picked

\* The short document is returned whole; a longer one starts the summary
\* with its first paragraph.
SumStart ==
    /\ pc = "start"
    /\ IF Len(full_text(blocks)) <= max_length
       THEN /\ summary' = full_text(blocks)
            /\ pc' = "done"
            /\ UNCHANGED <<paragraphs, idx>>
       ELSE /\ paragraphs' = split(full_text(blocks), NL)
            /\ summary' = first_summary(paragraphs')
            /\ pc' = "keywords"
            /\ idx' = 2
    /\ UNCHANGED <<blocks, max_length, picked, before>>
    /\ UNCHANGED cacheVars
    /\ UNCHANGED flatVars
    /\ UNCHANGED workVars

\* One turn of the for loop over paragraphs[1:].
SumKeywords ==
    /\ pc = "keywords"
    /\ keyword_loop_runs(summary, paragraphs, idx, max_length)
    /\ summary' = keyword_turn(summary, paragraphs[idx], max_length)
    /\ picked' = Picked("keywords", idx, summary, summary')
    /\ before' = summary
    /\ idx' = idx + 1
    /\ UNCHANGED <<blocks, max_length, pc, paragraphs>>
    /\ UNCHANGED cacheVars
    /\ UNCHANGED flatVars
    /\ UNCHANGED workVars

\* The for loop ends: no paragraph is left, or the break is taken.
SumKeywordsEnd ==
    /\ pc = "keywords"
    /\ ~keyword_loop_runs(summary, paragraphs, idx, max_length)
    /\ pc' = "more"
    /\ idx' = 2
    /\ UNCHANGED <<blocks, max_length, paragraphs, summary, picked, before>>
    /\ UNCHANGED cacheVars
    /\ UNCHANGED flatVars
    /\ UNCHANGED workVars

\* One turn of the while loop.
SumMore ==
    /\ pc = "more"
    /\ second_loop_runs(summary, paragraphs, idx, max_length)
    /\ summary' = second_turn(summary, paragraphs[idx])
    /\ picked' = Picked("more", idx, summary, summary')
    /\ before' = summary
    /\ idx' = idx + 1
    /\ UNCHANGED <<blocks, max_length, pc, paragraphs>>
    /\ UNCHANGED cacheVars
    /\ UNCHANGED flatVars
    /\ UNCHANGED workVars

\* The while loop ends and the summary is returned; idx stays where the loop
\* stopped.
SumMoreEnd ==
    /\ pc = "more"
    /\ ~second_loop_runs(summary, paragraphs, idx, max_length)
    /\ pc' = "done"
    /\ UNCHANGED <<blocks, max_length, paragraphs, summary, idx, picked, before>>
    /\ UNCHANGED cacheVars
    /\ UNCHANGED flatVars
    /\ UNCHANGED workVars

SumNext == SumStart \/ SumKeywords \/ SumKeywordsEnd \/ SumMore \/ SumMoreEnd

----------------------------------------------------------------------------
(* The simplification of the blocks of a page.  A Python dict is a function *)
(* whose domain is the set of its keys; a key whose value is JSON null      *)
(* holds Null.                                                              *)

\* The default {} of dict.get, and the value None under a key of a block.
EmptyDict == [k \in {} |-> << >>]

Null == [null |-> TRUE]

\* d.get(k, default)
DictGet(d, k, default) == IF k \in DOMAIN d THEN d[k] ELSE default

\* block.get('type') of a block without the key: None.
NoneType == "<None>"

\* The block types simplify_block_content has a branch for.
TextKinds ==
    {"paragraph", "heading_1", "heading_2", "heading_3", "bulleted_list_item",
     "numbered_list_item", "to_do", "toggle", "code"}

\* A slip: only the first span is read.
extract_plain_text_FirstSpan(rich_text) ==
    IF Len(rich_text) = 0 THEN << >>
    ELSE DictGet(Head(rich_text), "plain_text", << >>)

\* "".join([text.get('plain_text', '') for text in rich_text]), with
\* "" for an empty rich_text.
RECURSIVE extract_plain_text(_)
extract_plain_text(rich_text) ==
    IF Len(rich_text) = 0 THEN << >>
    ELSE DictGet(Head(rich_text), "plain_text", << >>)
             \o extract_plain_text(Tail(rich_text))

\* A slip: every record is given the checked field, False by default.
simplify_block_content_CheckedEverywhere(block) ==
    LET block_type == DictGet(block, "type", NoneType)
        data == DictGet(block, block_type, EmptyDict)
    IN  IF block_type \notin TextKinds
        THEN Return([type |-> block_type, content |-> << >>,
                     checked |-> FALSE])
        ELSE IF "null" \in DOMAIN data THEN Raise("AttributeError")
        ELSE LET content ==
                     extract_plain_text(DictGet(data, "rich_text", << >>))
             IN  IF block_type = "code"
                 THEN Return([type |-> block_type, content |-> content,
                              checked |-> FALSE,
                              language |-> DictGet(data, "language", << >>)])
                 ELSE Return([type |-> block_type, content |-> content,
                              checked |-> DictGet(data, "checked", FALSE)])

\* A slip: the fields of a block are subscripted, block[block_type] and
\* ['rich_text'], which raises KeyError for a missing key.
simplify_block_content_Subscript(block) ==
    LET block_type == DictGet(block, "type", NoneType) IN
    IF block_type \notin TextKinds
    THEN Return([type |-> block_type, content |-> << >>])
    ELSE IF block_type \notin DOMAIN block THEN Raise("KeyError")
    ELSE IF "null" \in DOMAIN block[block_type] THEN Raise("TypeError")
    ELSE IF "rich_text" \notin DOMAIN block[block_type] THEN Raise("KeyError")
    ELSE LET data == block[block_type]
             content == extract_plain_text(data.rich_text)
         IN  IF block_type = "to_do"
             THEN Return([type |-> block_type, content |-> content,
                          checked |-> DictGet(data, "checked", FALSE)])
             ELSE IF block_type = "code"
             THEN Return([type |-> block_type, content |-> content,
                          language |-> DictGet(data, "language", << >>)])
             ELSE Return([type |-> block_type, content |-> content])

\* NotionManager.simplify_block_content.  block.get(kind, {}) gives None
\* for a key that holds null, and None has no .get: AttributeError.
simplify_block_content(block) ==
    LET block_type == DictGet(block, "type", NoneType)
        data == DictGet(block, block_type, EmptyDict)
    IN  IF block_type \notin TextKinds
        THEN Return([type |-> block_type, content |-> << >>])
        ELSE IF "null" \in DOMAIN data THEN Raise("AttributeError")
        ELSE LET content ==
                     extract_plain_text(DictGet(data, "rich_text", << >>))
             IN  IF block_type = "to_do"
                 THEN Return([type |-> block_type, content |-> content,
                              checked |-> DictGet(data, "checked", FALSE)])
                 ELSE IF block_type = "code"
                 THEN Return([type |-> block_type, content |-> content,
                              language |-> DictGet(data, "language", << >>)])
                 ELSE Return([type |-> block_type, content |-> content])

\* A slip: the loop is left one block late (i > max_blocks).
flat_loop_runs_OffByOne(bs, n, max) == n < Len(bs) /\ ~(n > max)

\* for i, block in enumerate(blocks): if i >= max_blocks: break.
\* n blocks have been simplified.
flat_loop_runs(bs, n, max) == n < Len(bs) /\ ~(n >= max)

\* Blocks as the remote service sends them, and blocks with parts missing.
Span(t) == [type |-> "text", plain_text |-> t]

Block(kind, data) == ("type" :> kind) @@ (kind :> data)

TwoSpans == <<Span(<<"a">>), Span(<<"b">>)>>

GoodShapes ==
    << Block("paragraph", [rich_text |-> TwoSpans]),
       Block("heading_1", [rich_text |-> TwoSpans]),
       Block("heading_2", [rich_text |-> TwoSpans]),
       Block("heading_3", [rich_text |-> TwoSpans]),
       Block("bulleted_list_item", [rich_text |-> TwoSpans]),
       Block("numbered_list_item", [rich_text |-> TwoSpans]),
       Block("to_do", [rich_text |-> TwoSpans, checked |-> TRUE]),
       Block("toggle", [rich_text |-> TwoSpans]),
       Block("code", [rich_text |-> TwoSpans, language |-> <<"p", "y">>]),
       Block("to_do", [rich_text |-> TwoSpans, checked |-> FALSE]) >>

\* No kind-specific field; no rich_text; an empty rich_text; a span without
\* plain_text; no checked; no language; a type with no branch; no type.
PoorShapes ==
    << "type" :> "paragraph",
       Block("paragraph", [color |-> "default"]),
       Block("heading_1", [rich_text |-> << >>]),
       Block("paragraph", [rich_text |-> <<[type |-> "mention"], Span(<<"c">>)>>]),
       Block("to_do", [rich_text |-> TwoSpans]),
       Block("code", [rich_text |-> TwoSpans]),
       Block("image", [rich_text |-> TwoSpans]),
       "paragraph" :> [rich_text |-> TwoSpans] >>

\* The kind-specific field holds null.
NullShape == Block("paragraph", Null)

Shapes == GoodShapes \o PoorShapes

RawBlocks == {Shapes[n] : n \in 1..Len(Shapes)} \cup {NullShape}

ShortPages == UNION {[1..n -> RawBlocks] : n \in 0..MaxRawBlocks}

\* A page of n blocks that runs through the shapes again and again.
LongPage(n) == [j \in 1..n |-> Shapes[((j - 1) % Len(Shapes)) + 1]]

LongPages == {LongPage(n) : n \in (DEFAULT_MAX_BLOCKS - 1)..MaxPageBlocks}

\* No page is being simplified.
FlatOff ==
    /\ page_blocks = << >>
    /\ max_blocks = 0
    /\ simplified_blocks = << >>
    /\ flat_i = 0
    /\ flat_pc = "off"
    /\ first_run = None

\* get_page_content_simplified has fetched the blocks of the page and
\* starts on them with simplified_blocks = [].
FlatInit ==
    /\ page_blocks \in ShortPages \cup LongPages
    /\ max_blocks \in (0..MaxRawBlocks) \cup {DEFAULT_MAX_BLOCKS}
    /\ simplified_blocks = << >>
    /\ flat_i = 0
    /\ flat_pc = "loop"
    /\ first_run = None

\* The same, for the pages of at most one block and for one page with a
\* block of every shape.
FlatInitTwice ==
    /\ page_blocks \in {bs \in ShortPages : Len(bs) <= 1} \cup {Shapes}
    /\ max_blocks \in (0..MaxRawBlocks) \cup {DEFAULT_MAX_BLOCKS}
    /\ simplified_blocks = << >>
    /\ flat_i = 0
    /\ flat_pc = "loop"
    /\ first_run = None

\* A slip: the record is stamped with the time it was made at.
FlatTurn_Stamped ==
    /\ flat_pc = "loop"
    /\ flat_loop_runs(page_blocks, flat_i, max_blocks)
    /\ LET r == simplify_block_content(page_blocks[flat_i + 1]) IN
          /\ r.outcome = "return"
          /\ simplified_blocks' =
                Append(simplified_blocks,
                       [type |-> r.value.type, content |-> r.value.content,
                        simplified_at |-> now])
    /\ flat_i' = flat_i + 1
    /\ UNCHANGED <<page_blocks, max_blocks, flat_pc, first_run>>
    /\ UNCHANGED cacheVars
    /\ UNCHANGED sumVars
    /\ UNCHANGED workVars

\* One turn of the loop: the next block is simplified and appended.
FlatTurn ==
    /\ flat_pc = "loop"
    /\ flat_loop_runs(page_blocks, flat_i, max_blocks)
    /\ LET r == simplify_block_content(page_blocks[flat_i + 1]) IN
          /\ r.outcome = "return"
          /\ simplified_blocks' = Append(simplified_blocks, r.value)
    /\ flat_i' = flat_i + 1
    /\ UNCHANGED <<page_blocks, max_blocks, flat_pc, first_run>>
    /\ UNCHANGED cacheVars
    /\ UNCHANGED sumVars
    /\ UNCHANGED workVars

\* simplify_block_content raises: the exception leaves the loop and
\* get_page_content_simplified.
FlatRaise ==
    /\ flat_pc = "loop"
    /\ flat_loop_runs(page_blocks, flat_i, max_blocks)
    /\ simplify_block_content(page_blocks[flat_i + 1]).outcome # "return"
    /\ flat_pc' = "raised"
    /\ UNCHANGED <<page_blocks, max_blocks, simplified_blocks, flat_i,
                   first_run>>
    /\ UNCHANGED cacheVars
    /\ UNCHANGED sumVars
    /\ UNCHANGED workVars

\* The loop is over, by exhaustion or by the break, and the blocks are
\* returned.
FlatEnd ==
    /\ flat_pc = "loop"
    /\ ~flat_loop_runs(page_blocks, flat_i, max_blocks)
    /\ flat_pc' = "done"
    /\ UNCHANGED <<page_blocks, max_blocks, simplified_blocks, flat_i,
                   first_run>>
    /\ UNCHANGED cacheVars
    /\ UNCHANGED sumVars
    /\ UNCHANGED workVars

FlatNext == FlatTurn \/ FlatRaise \/ FlatEnd

\* The blocks are simplified a second time: how the first run ended is
\* kept in first_run and the loop starts again on the same blocks.
FlatAgain ==
    /\ flat_pc \in {"done", "raised"}
    /\ first_run.none
    /\ first_run' = Some([end |-> flat_pc, blocks |-> simplified_blocks])
    /\ simplified_blocks' = << >>
    /\ flat_i' = 0
    /\ flat_pc' = "loop"
    /\ UNCHANGED <<page_blocks, max_blocks>>
    /\ UNCHANGED cacheVars
    /\ UNCHANGED sumVars
    /\ UNCHANGED workVars

----------------------------------------------------------------------------
(* GoogleCalendarManager.create_work_blocks.  A time is counted in minutes *)
(* from the midnight that begins the day of the argument date; the hours   *)
(* passed in are hours of a day, 0 to 23.                                  *)

\* datetime.hour and datetime.minute.
hour(t) == (t \div 60) % 24

minute(t) == t % 60

\* t.replace(hour=h, minute=0): the day of t stays.
replace_hour(t, h) == (t \div (24 * 60)) * (24 * 60) + h * 60

\* The arguments the day is planned with.  The defaults are 10, 18, 45, 15,
\* 12 and 13.
StartHours == {10, 11, 12}

EndHours == {12, 14, 18}

BlockDurations == {0 - 15, 0, 45, 50}

BreakDurations == {0, 15, 30}

LunchHours == {12, 13, 14}

WorkArgs ==
    {a \in [start_hour : StartHours, end_hour : EndHours,
            block_duration : BlockDurations, break_duration : BreakDurations,
            lunch_start : LunchHours, lunch_end : LunchHours] :
        /\ a.block_duration + a.break_duration > 0
        /\ a.lunch_start < a.lunch_end}

\* while current_time < end_time
end_time(a) == a.end_hour * 60

work_loop_runs(a, t) == t < end_time(a)

\* if current_time.hour == lunch_start and current_time.minute == 0
at_lunch(a, t) == hour(t) = a.lunch_start /\ minute(t) = 0

\* create_work_blocks is not running.
WorkOff ==
    /\ work_args = [start_hour |-> 0, end_hour |-> 0, block_duration |-> 0,
                    break_duration |-> 0, lunch_start |-> 0, lunch_end |-> 0]
    /\ current_time = 0
    /\ created_events = << >>
    /\ work_pc = "off"

\* create_work_blocks is called: created_events = [] and current_time is
\* start_hour:00.
WorkInit ==
    /\ work_args \in WorkArgs
    /\ current_time = replace_hour(0, work_args.start_hour)
    /\ created_events = << >>
    /\ work_pc = "loop"

\* A slip: the lunch skip sets the hour to lunch_start.
WorkLunch_SameHour ==
    /\ work_pc = "loop"
    /\ work_loop_runs(work_args, current_time)
    /\ at_lunch(work_args, current_time)
    /\ current_time' = replace_hour(current_time, work_args.lunch_start)
    /\ UNCHANGED <<work_args, created_events, work_pc>>
    /\ UNCHANGED cacheVars
    /\ UNCHANGED sumVars
    /\ UNCHANGED flatVars

\* A turn of the loop at lunch_start:00: the time is set to lunch_end:00.
WorkLunch ==
    /\ work_pc = "loop"
    /\ work_loop_runs(work_args, current_time)
    /\ at_lunch(work_args, current_time)
    /\ current_time' = replace_hour(current_time, work_args.lunch_end)
    /\ UNCHANGED <<work_args, created_events, work_pc>>
    /\ UNCHANGED cacheVars
    /\ UNCHANGED sumVars
    /\ UNCHANGED flatVars

\* Any other turn of the loop: an event from current_time to block_end is
\* created and the time moves to the end of the break after it.
WorkBlock ==
    /\ work_pc = "loop"
    /\ work_loop_runs(work_args, current_time)
    /\ ~at_lunch(work_args, current_time)
    /\ LET block_end == current_time + work_args.block_duration IN
          /\ created_events' =
                Append(created_events,
                       [start |-> current_time, end |-> block_end])
          /\ current_time' = block_end + work_args.break_duration
    /\ UNCHANGED <<work_args, work_pc>>
    /\ UNCHANGED cacheVars
    /\ UNCHANGED sumVars
    /\ UNCHANGED flatVars

\* The loop is over: created_events is returned.
WorkEnd ==
    /\ work_pc = "loop"
    /\ ~work_loop_runs(work_args, current_time)
    /\ work_pc' = "done"
    /\ UNCHANGED <<work_args, current_time, created_events>>
    /\ UNCHANGED cacheVars
    /\ UNCHANGED sumVars
    /\ UNCHANGED flatVars

WorkNext == WorkLunch \/ WorkBlock \/ WorkEnd

----------------------------------------------------------------------------
(* The specifications *)

Init == CacheInit /\ SumOff /\ FlatOff /\ WorkOff

Next == CacheNext

Spec == Init /\ [][Next]_vars

InitSum == CacheInit /\ SumInit /\ FlatOff /\ WorkOff

NextSum == SumNext

SpecSum == InitSum /\ [][NextSum]_vars

InitDir == CacheInit /\ SumOff /\ FlatOff /\ WorkOff

NextDir == CacheNext \/ RemoveDir \/ Construct

SpecDir == InitDir /\ [][NextDir]_vars

InitTwice == CacheInit /\ SumOff /\ FlatInitTwice /\ WorkOff

\* Between and during the two runs the clock moves and the cache is written.
NextTwice ==
    \/ FlatNext
    \/ FlatAgain
    \/ \E d \in TickSteps : Tick(d)
    \/ \E k \in PageIds, v \in Values : UpdateCache(k, v)

SpecTwice == InitTwice /\ [][NextTwice]_vars

InitWork == CacheInit /\ SumOff /\ FlatOff /\ WorkInit

NextWork == WorkNext

SpecWork == InitWork /\ [][NextWork]_vars

\* The loop is the only thing the call does: it goes on while it can.
SpecWorkFair == SpecWork /\ WF_vars(NextWork)

InitFlat == CacheInit /\ SumOff /\ FlatInit /\ WorkOff

NextFlat == FlatNext

SpecFlat == InitFlat /\ [][NextFlat]_vars

----------------------------------------------------------------------------
(* The claims about the cache *)

\* The file of the key of the step just taken, before and after the step.
PreFile == ret.pre[get_cache_path(ret.key)]

PostFile == files[get_cache_path(ret.key)]

\* The step just taken was get_page or get_block_children.
IsGetOrFetch == ret.op \in {"get_page", "get_block_children"}

\* Before the step, the last write of the key's file had completed and was
\* less than 24 hours old, or 24 hours old and more.
WasFresh == ret.was.put /\ now - ret.was.at < 24

WasExpired == ret.was.put /\ now - ret.was.at >= 24

\* C1: get(k) after put(k, v), with no later write of k's file and less
\* than 24 hours on the clock since the put, returns exactly v, for every
\* value v, the empty ones included.
C1_GetAfterPut ==
    (ret.op = "get_cached_page" /\ WasFresh)
        => ret.end = Return(Some(ret.was.val))

\* C1 happens: an empty value is read back 23 hours after it was put.
C1_Witness ==
    /\ ret.op = "get_cached_page"
    /\ ret.was.put /\ now - ret.was.at = 23
    /\ ret.was.val = << >>
    /\ ret.end = Return(Some(<< >>))

\* C2: get(k) returns absent whenever the stored entry of k is 24 hours old
\* or older (exactly 24 hours counts as expired) and returns the stored
\* value whenever it is younger; an expired value is never returned.
C2_ExpiryBoundary ==
    (ret.op = "get_cached_page" /\ PreFile.kind = "json")
        => /\ WasExpired => ret.end = Return(None)
           /\ WasFresh => ret.end = Return(Some(PreFile.content))
           /\ WasExpired \/ WasFresh

\* C2 happens: an entry exactly 24 hours old is read and found absent.
C2_Witness ==
    /\ ret.op = "get_cached_page"
    /\ PreFile.kind = "json"
    /\ ret.was.put /\ now - ret.was.at = 24
    /\ ret.end = Return(None)

\* C3: a forced get_page or get_block_children always calls the remote
\* service and, when the call succeeds, overwrites the entry of k with the
\* fetched result and cachedAt = now, whether or not a valid entry exists.
C3_ForcedRefresh ==
    (IsGetOrFetch /\ ret.force)
        => /\ ret.fetch # "none"
           /\ ret.fetch = "ok" =>
                /\ PostFile.kind = "json"
                /\ PostFile.content = ret.body
                /\ PostFile.cached_at = <<now \div 24, now % 24>>
                /\ ret.end = Return(Some(ret.body))

\* C3 happens: a forced call replaces a still valid entry by another value.
C3_Witness ==
    /\ IsGetOrFetch /\ ret.force /\ ret.fetch = "ok"
    /\ WasFresh /\ Len(ret.was.val) > 0
    /\ ret.body # ret.was.val
    /\ PostFile.content = ret.body

\* C4: an unforced get_page or get_block_children that finds an entry
\* younger than 24 hours returns the cached value, whatever it is, and does
\* not call the remote service.
C4_HitNeverFetches ==
    (IsGetOrFetch /\ ~ret.force /\ WasFresh)
        => /\ ret.fetch = "none"
           /\ ret.end = Return(Some(ret.was.val))

\* C5: in a run of unforced calls on one key whose fetches succeed, two
\* consecutive calls of the remote service are at least 24 hours apart.
C5_OncePerWindow ==
    (IsGetOrFetch /\ ~ret.force /\ ret.fetch = "ok" /\ ret.was.fetchAt >= 0)
        => now - ret.was.fetchAt >= 24

\* C6: when the remote call fails, the failure reaches the caller and the
\* cache is unchanged: every key holds the entry it held before the call.
C6_FailedFetchLeavesCache ==
    (IsGetOrFetch /\ ret.fetch = "fail")
        => /\ ret.end = Raise("HTTPError")
           /\ files = ret.pre

\* C6 happens: the remote call fails while both keys hold an entry.
C6_Witness ==
    /\ IsGetOrFetch /\ ret.fetch = "fail"
    /\ \A p \in Paths : ret.pre[p].kind = "json"
    /\ files = ret.pre

\* C7: get(k) never raises: with no file, or a file that is not JSON, it
\* returns absent, and an unforced get_page or get_block_children then
\* goes on to call the remote service.
C7_GetNeverRaises ==
    /\ (ret.op = "get_cached_page" /\ PreFile.kind \in {"nofile", "badjson"})
          => ret.end = Return(None)
    /\ (IsGetOrFetch /\ ~ret.force /\ PreFile.kind \in {"nofile", "badjson"})
          => ret.fetch # "none"

\* C8: on a miss (no entry, or an expired one) an unforced get_page or
\* get_block_children calls the remote service once, stores the result
\* under k with cachedAt = now and returns it: the stored value equals the
\* returned one.
C8_MissFetchesAndStores ==
    (IsGetOrFetch /\ ~ret.force /\ (PreFile.kind = "nofile" \/ WasExpired))
        => /\ ret.fetch # "none"
           /\ ret.fetch = "ok" =>
                /\ PostFile.kind = "json"
                /\ PostFile.cached_at = <<now \div 24, now % 24>>
                /\ ret.end = Return(Some(ret.body))
                /\ ret.end.value = Some(PostFile.content)
                /\ \A p \in Paths \ {get_cache_path(ret.key)} : files[p] = ret.pre[p]

\* C8 happens: an expired entry is replaced by the fetched value.
C8_Witness ==
    /\ IsGetOrFetch /\ ~ret.force /\ WasExpired
    /\ PreFile.kind = "json" /\ Len(PreFile.content) > 0
    /\ ret.fetch = "ok"
    /\ PostFile.content = ret.body /\ ret.body # PreFile.content

----------------------------------------------------------------------------
(* The claims about the summarizer *)

\* The contents of the blocks that have one, joined by newlines.
RECURSIVE NonEmptyJoined(_)
NonEmptyJoined(bs) ==
    IF bs = << >> THEN << >>
    ELSE LET rest == NonEmptyJoined(Tail(bs)) IN
         IF Head(bs).content = << >> THEN rest
         ELSE IF rest = << >> THEN Head(bs).content
         ELSE Head(bs).content \o <<NL>> \o rest

\* C9: the summary is exactly the newline-joined non-empty block contents
\* whenever that text is no longer than max_length, also when it is exactly
\* max_length long and when no block has content.
C9_ShortDocumentWhole ==
    (pc = "done" /\ Len(NonEmptyJoined(blocks)) <= max_length)
        => summary = NonEmptyJoined(blocks)

\* C9 happens: a page with an empty block whose text is exactly max_length
\* long is returned whole.
C9_Witness ==
    /\ pc = "done"
    /\ Len(blocks) = 3 /\ blocks[2].content = << >>
    /\ blocks[1].content # << >> /\ blocks[3].content # << >>
    /\ Len(NonEmptyJoined(blocks)) = max_length
    /\ summary = blocks[1].content \o <<NL>> \o blocks[3].content

\* C10: when the joined text is longer than max_length, the summary is at
\* most max_length characters long.
C10_BudgetRespected ==
    (pc = "done" /\ Len(NonEmptyJoined(blocks)) > max_length)
        => Len(summary) <= max_length

\* The summary is being cut down: the joined text was longer than max_length.
TruncPath ==
    \/ pc \in {"keywords", "more"}
    \/ pc = "done" /\ Len(NonEmptyJoined(blocks)) > max_length

\* The entries of picked made by the for loop and by the while loop, and
\* the paragraph an entry stands for.
KwPicks == {k \in 1..Len(picked) : picked[k].loop = "keywords"}

MorePicks == {k \in 1..Len(picked) : picked[k].loop = "more"}

Para(k) == paragraphs[picked[k].pos]

\* How many lines of text are the paragraph p.
Occurrences(text, p) ==
    Cardinality({o \in 0..(Len(text) - Len(p)) :
        /\ \A j \in 1..Len(p) : text[o + j] = p[j]
        /\ o = 0 \/ text[o] = NL
        /\ o + Len(p) = Len(text) \/ text[o + Len(p) + 1] = NL})

OnceInDocument(p) ==
    Cardinality({n \in 1..Len(paragraphs) : paragraphs[n] = p}) = 1

\* C13: a paragraph the keyword pass appended is not appended again by the
\* second pass; when the document holds it once, the output holds it once.
C13_KeywordParagraphOnce ==
    TruncPath =>
        \A a \in KwPicks :
            /\ \A b \in MorePicks : Para(b) # Para(a)
            /\ (pc = "done" /\ OnceInDocument(Para(a)))
                  => Occurrences(summary, Para(a)) = 1

\* C13 happens: the second pass comes to a paragraph the keyword pass
\* appended, passes it and appends a later one.
C13_Witness ==
    /\ pc = "done"
    /\ \E a \in KwPicks, b \in MorePicks :
          /\ picked[a].pos < picked[b].pos
          /\ OnceInDocument(Para(a))
          /\ Occurrences(summary, Para(a)) = 1

\* C14: for "Intro", "Detail one", "This is a key finding", "Detail two"
\* and max_length 30 the summary is "Intro", newline, "This is a key
\* finding", 27 characters, without "Detail one" and "Detail two".
C14_Example ==
    (pc = "done" /\ blocks = ExampleBlocks /\ max_length = 30)
        => /\ summary = Intro \o <<NL>> \o KeyFinding
           /\ Len(summary) = 27
           /\ ~Contains(summary, DetailOne) /\ ~Contains(summary, DetailTwo)

\* C14 happens: the example page has been summarized.
C14_Witness ==
    /\ pc = "done" /\ blocks = ExampleBlocks /\ max_length = 30
    /\ Len(picked) = 1 /\ picked[1] = [loop |-> "keywords", pos |-> 3]
    /\ idx = 2

\* The paragraphs of the summary as the program put them there: the first
\* paragraph, then the appended ones in the order of their appending.
OutputParagraphs ==
    <<paragraphs[1]>> \o [k \in 1..Len(picked) |-> Para(k)]

RECURSIVE IsSubsequence(_, _)
IsSubsequence(xs, ys) ==
    IF xs = << >> THEN TRUE
    ELSE IF ys = << >> THEN FALSE
    ELSE IF Head(xs) = Head(ys) THEN IsSubsequence(Tail(xs), Tail(ys))
    ELSE IsSubsequence(xs, Tail(ys))

\* C15 as stated: the paragraphs of the output stand in the order they have
\* in the document.
C15_DocumentOrder ==
    (pc = "done" /\ TruncPath) => IsSubsequence(OutputParagraphs, paragraphs)

\* C15: on the truncation path the output is the first paragraph, then the
\* paragraphs of the keyword pass in document order, then the paragraphs of
\* the second pass in document order.
C15_ThreeRuns ==
    TruncPath =>
        /\ summary = join(<<NL>>, OutputParagraphs)
        /\ \A a, b \in 1..Len(picked) :
              a < b =>
                /\ picked[a].loop = "more" => picked[b].loop = "more"
                /\ picked[a].loop = picked[b].loop
                      => picked[a].pos < picked[b].pos
        /\ \A a \in 1..Len(picked) : picked[a].pos \in 2..Len(paragraphs)

\* C15 happens: the second pass appends a paragraph that stands before a
\* keyword paragraph of the output in the document.
C15_Witness ==
    /\ pc = "done"
    /\ \E a \in KwPicks, b \in MorePicks : picked[b].pos < picked[a].pos

\* The text up to the first newline.
FirstLine(text) ==
    LET cut == {n \in 1..Len(text) : text[n] = NL}
    IN  IF cut = {} THEN text
        ELSE SubSeq(text, 1, (CHOOSE n \in cut : \A m \in cut : n <= m) - 1)

KeywordParagraphs == {<<"k", "e", "y">>, <<"K", "e", "y", "s">>, KeyFinding}

KwPicked(n) == \E k \in KwPicks : picked[k].pos = n

MorePicked(n) == \E k \in MorePicks : picked[k].pos = n

\* The summary as the keyword pass comes to position n: the first paragraph
\* and the keyword paragraphs appended before n.
SummaryAt(n) ==
    LET m == Cardinality({k \in KwPicks : picked[k].pos < n})
    IN  join(<<NL>>, <<paragraphs[1]>> \o [k \in 1..m |-> Para(k)])

Fits(sum, p) == Len(sum) + 1 + Len(p) <= max_length

\* C19: the keyword pass appends a paragraph exactly when it contains a
\* keyword and fits, the test coming before the append; an append never
\* leaves the summary longer than max_length; a keyword paragraph that does
\* not fit is passed over and the later ones are still tried; no paragraph
\* is tried once the summary has max_length characters or more.
C19_KeywordPass ==
    /\ pc = "keywords" =>
          /\ summary = SummaryAt(idx)
          /\ \A n \in 2..Len(paragraphs) : KwPicked(n) => n < idx
          /\ \A n \in 2..(idx - 1) : Len(SummaryAt(n)) < max_length
          /\ idx > 2 =>
                \/ summary = before
                \/ /\ summary = before \o <<NL>> \o paragraphs[idx - 1]
                   /\ paragraphs[idx - 1] \in KeywordParagraphs
                   /\ Fits(before, paragraphs[idx - 1])
                   /\ Len(summary) <= max_length
    /\ (TruncPath /\ pc \in {"keywords", "more", "done"}) =>
          \A n \in 2..(IF pc = "keywords" THEN idx - 1 ELSE Len(paragraphs)) :
              KwPicked(n) <=> /\ paragraphs[n] \in KeywordParagraphs
                              /\ Fits(SummaryAt(n), paragraphs[n])

\* C19 happens: a keyword paragraph that does not fit is passed over and a
\* later, shorter one is appended.
C19_Witness ==
    /\ pc = "more"
    /\ \E n, m \in 2..Len(paragraphs) :
          /\ n < m
          /\ paragraphs[n] \in KeywordParagraphs /\ ~KwPicked(n)
          /\ KwPicked(m)
          /\ Len(paragraphs[m]) < Len(paragraphs[n])

\* C20: the second pass stops only at a paragraph that is not in the summary
\* and does not fit, so the first paragraph that the returned summary does
\* not hold is one that does not fit.
C20_StopsOnlyAtNew ==
    (pc = "done" /\ TruncPath) =>
        \A m \in 2..Len(paragraphs) :
            ( /\ ~Contains(summary, paragraphs[m])
              /\ \A j \in 2..(m - 1) : Contains(summary, paragraphs[j]) )
            => ~Fits(summary, paragraphs[m])

\* The step just taken was a read of the cache with no fetch behind it.
IsGet == ret.op \in {"get_cached_page", "get_page_content"}

\* C16: a get deletes and modifies no entry: the whole directory is as it
\* was before the call, and an expired entry is still stored with the value
\* and the timestamp of the put that wrote it.
C16_LazyExpiry ==
    IsGet =>
        /\ files = ret.pre
        /\ ret.was.put =>
              PostFile = JsonFile(ret.was.val, isoformat(ret.was.at))

\* C16 happens: an entry put 47 hours ago or earlier is read, found absent
\* and is still stored as it was put.
C16_Witness ==
    /\ ret.op = "get_cached_page"
    /\ ret.was.put /\ now - ret.was.at >= 2 * TTL - 1
    /\ ret.end = Return(None)
    /\ PostFile = JsonFile(ret.was.val, isoformat(ret.was.at))
    /\ PostFile = PreFile

\* C17: every key has one file of its own; the file of a key holds the
\* value and the timestamp of the most recent put of that key; a put leaves
\* the files of all other keys as they were.
C17_OneEntryPerKey ==
    /\ DOMAIN files = Paths
    /\ \A k1, k2 \in Keys : k1 # k2 => get_cache_path(k1) # get_cache_path(k2)
    /\ \A k \in Keys :
          hist[k].put =>
              /\ files[get_cache_path(k)].kind = "json"
              /\ files[get_cache_path(k)].content = hist[k].val
              /\ fromisoformat(files[get_cache_path(k)].cached_at) = hist[k].at
    /\ ret.op = "update_cache" =>
          /\ PostFile = JsonFile(ret.body, isoformat(now))
          /\ \A k \in Keys \ {ret.key} :
                files[get_cache_path(k)] = ret.pre[get_cache_path(k)]

\* C17 happens: a key is put a second time with another value while another
\* key holds an entry, which stays.
C17_Witness ==
    /\ ret.op = "update_cache"
    /\ ret.was.put /\ ret.was.val # ret.body /\ ret.was.at < now
    /\ PostFile = JsonFile(ret.body, isoformat(now))
    /\ \E k \in Keys \ {ret.key} :
          /\ hist[k].put
          /\ files[get_cache_path(k)] = JsonFile(hist[k].val, isoformat(hist[k].at))

Min(a, b) == IF a <= b THEN a ELSE b

TypeOf(block) == DictGet(block, "type", NoneType)

\* C11 as stated: called as the program calls it, with max_blocks left at
\* its default, the simplification returns one record for every block.
C11_OneRecordPerBlock ==
    (flat_pc = "done" /\ max_blocks = DEFAULT_MAX_BLOCKS)
        => Len(simplified_blocks) = Len(page_blocks)

\* C11: the simplification of N blocks returns min(N, max_blocks) records,
\* max_blocks being 50 by default, and record i is the simplification of
\* block i, for every i up to that number.
C11_FirstMaxBlocks ==
    /\ flat_pc \in {"loop", "raised"} =>
          /\ Len(simplified_blocks) = flat_i
          /\ flat_i <= Min(Len(page_blocks), max_blocks)
    /\ flat_pc = "done" =>
          Len(simplified_blocks) = Min(Len(page_blocks), max_blocks)
    /\ \A j \in 1..Len(simplified_blocks) :
          /\ simplified_blocks[j].type = TypeOf(page_blocks[j])
          /\ simplify_block_content(page_blocks[j])
                = Return(simplified_blocks[j])

\* C11 happens: a page of 51 blocks is simplified with the default
\* max_blocks and 50 records come back, the last one made of block 50.
C11_Witness ==
    /\ flat_pc = "done"
    /\ max_blocks = DEFAULT_MAX_BLOCKS
    /\ Len(page_blocks) = DEFAULT_MAX_BLOCKS + 1
    /\ Len(simplified_blocks) = DEFAULT_MAX_BLOCKS
    /\ simplified_blocks[DEFAULT_MAX_BLOCKS].type
          = TypeOf(page_blocks[DEFAULT_MAX_BLOCKS])

\* A block of a type with no branch (or with no type), and a block of a
\* type with a branch whose kind-specific field or rich_text is missing.
UnknownKind(block) == TypeOf(block) \notin TextKinds

FieldMissing(block) ==
    /\ TypeOf(block) \in TextKinds
    /\ \/ TypeOf(block) \notin DOMAIN block
       \/ /\ "null" \notin DOMAIN block[TypeOf(block)]
          /\ "rich_text" \notin DOMAIN block[TypeOf(block)]

\* C12: a block of unknown kind or with a missing field does not make the
\* simplification fail; its record has content "" and stands at the
\* position of the block; the blocks after it are simplified as well.
C12_MalformedBlocks ==
    /\ \A j \in 1..Len(simplified_blocks) :
          (UnknownKind(page_blocks[j]) \/ FieldMissing(page_blocks[j]))
              => /\ simplified_blocks[j].content = << >>
                 /\ simplified_blocks[j].type = TypeOf(page_blocks[j])
    /\ (flat_pc \in {"loop", "raised"}
          /\ flat_loop_runs(page_blocks, flat_i, max_blocks))
          => LET block == page_blocks[flat_i + 1] IN
             (UnknownKind(block) \/ FieldMissing(block))
                 => /\ flat_pc = "loop"
                    /\ simplify_block_content(block).outcome = "return"
    /\ flat_pc = "done" =>
          \A j \in 1..Min(Len(page_blocks), max_blocks) :
              j <= Len(simplified_blocks)

\* C12 happens: a page with a block without its kind-specific field and a
\* block of unknown kind is simplified; both give an empty record and a
\* later block gives its text.
C12_Witness ==
    /\ flat_pc = "done"
    /\ \E j1, j2, k \in 1..Len(simplified_blocks) :
          /\ j1 < k /\ j2 < k
          /\ FieldMissing(page_blocks[j1])
          /\ UnknownKind(page_blocks[j2])
          /\ simplified_blocks[j1].content = << >>
          /\ simplified_blocks[j2].content = << >>
          /\ simplified_blocks[k].content = <<"a", "b">>

\* C21: the second pass passes over a paragraph exactly when the paragraph
\* is, character for character, one of the paragraphs the summary holds;
\* being part of a longer paragraph of the summary does not count.
C21_ExactMatchOnly ==
    (TruncPath /\ pc = "more" /\ idx > 2) =>
        (summary = before <=> Occurrences(before, paragraphs[idx - 1]) > 0)

\* The lines of a text, and the lines of the contents of the blocks that
\* have a content, block after block.
RECURSIVE LinesOf(_)
LinesOf(text) ==
    IF FirstLine(text) = text THEN <<text>>
    ELSE <<FirstLine(text)>>
             \o LinesOf(SubSeq(text, Len(FirstLine(text)) + 2, Len(text)))

RECURSIVE LinesOfBlocks(_)
LinesOfBlocks(bs) ==
    IF bs = << >> THEN << >>
    ELSE IF Head(bs).content = << >> THEN LinesOfBlocks(Tail(bs))
    ELSE LinesOf(Head(bs).content) \o LinesOfBlocks(Tail(bs))

RECURSIVE NonEmptyContents(_)
NonEmptyContents(bs) ==
    IF bs = << >> THEN << >>
    ELSE IF Head(bs).content = << >> THEN NonEmptyContents(Tail(bs))
    ELSE <<Head(bs).content>> \o NonEmptyContents(Tail(bs))

\* C22 as stated: the paragraphs are the non-empty contents, one paragraph
\* for a block, whether or not its content holds a newline.
C22_OneParagraphPerBlock ==
    TruncPath => paragraphs = NonEmptyContents(blocks)

\* C22: the paragraphs are the lines of the non-empty contents in block
\* order: a block with an empty content gives none, a block whose content
\* holds k newlines gives k + 1.
C22_ParagraphsAreLines ==
    TruncPath => paragraphs = LinesOfBlocks(blocks)

\* C22 happens: a block whose content holds a newline is summarized on the
\* truncation path next to a block with an empty content.
C22_Witness ==
    /\ pc = "done" /\ TruncPath
    /\ \E j \in 1..Len(blocks) : blocks[j].content = << >>
    /\ \E j \in 1..Len(blocks) : Contains(blocks[j].content, <<NL>>)
    /\ Len(paragraphs) = Len(NonEmptyContents(blocks)) + 1

Max(a, b) == IF a >= b THEN a ELSE b

\* C27: the summary is never longer than the larger of max_length and the
\* length of the first paragraph, and it is within max_length as soon as
\* one of the two passes has appended to it.
C27_LengthBound ==
    /\ pc = "done" /\ ~TruncPath => Len(summary) <= max_length
    /\ TruncPath =>
          /\ Len(summary) <= Max(max_length, Len(LinesOfBlocks(blocks)[1]))
          /\ picked # << >> => Len(summary) <= max_length
          /\ Len(summary) > max_length => summary = LinesOfBlocks(blocks)[1]

\* C27 happens: both passes have appended, the summary has max_length
\* characters exactly.
C27_Witness ==
    /\ pc = "done"
    /\ KwPicks # {} /\ MorePicks # {}
    /\ Len(summary) = max_length

\* C23: a record has the field checked exactly when its block is a to_do
\* and the field language exactly when its block is a code block; every
\* other record has the fields type and content and no more.
C23_ExtraFields ==
    \A j \in 1..Len(simplified_blocks) :
        LET rec == simplified_blocks[j]
            kind == TypeOf(page_blocks[j])
        IN  /\ "checked" \in DOMAIN rec <=> kind = "to_do"
            /\ "language" \in DOMAIN rec <=> kind = "code"
            /\ {"type", "content"} \subseteq DOMAIN rec
            /\ DOMAIN rec \subseteq {"type", "content", "checked", "language"}
            /\ kind \notin {"to_do", "code"} => DOMAIN rec = {"type", "content"}

\* C23 happens: a page with a to_do, a code block, a paragraph and a block
\* of unknown kind has been simplified.
C23_Witness ==
    /\ flat_pc = "done"
    /\ \E a, b, c, d \in 1..Len(simplified_blocks) :
          /\ TypeOf(page_blocks[a]) = "to_do"
          /\ simplified_blocks[a].checked = TRUE
          /\ TypeOf(page_blocks[b]) = "code"
          /\ simplified_blocks[b].language = <<"p", "y">>
          /\ TypeOf(page_blocks[c]) = "paragraph"
          /\ DOMAIN simplified_blocks[c] = {"type", "content"}
          /\ TypeOf(page_blocks[d]) = "image"
          /\ DOMAIN simplified_blocks[d] = {"type", "content"}

\* The rich-text spans of a block of a known kind, and the plain texts of
\* the first n spans one after the other.
SpansOf(block) ==
    IF /\ TypeOf(block) \in DOMAIN block
       /\ "rich_text" \in DOMAIN block[TypeOf(block)]
    THEN block[TypeOf(block)].rich_text
    ELSE << >>

RECURSIVE PlainTexts(_, _)
PlainTexts(spans, n) ==
    IF n = 0 THEN << >>
    ELSE PlainTexts(spans, n - 1)
             \o (IF "plain_text" \in DOMAIN spans[n]
                 THEN spans[n].plain_text ELSE << >>)

\* C24: the content of the record of a block of a known kind is the plain
\* texts of the block's spans in span order, a span without plain text
\* giving nothing; the type of every record is the type of its block.
C24_ContentAndType ==
    \A j \in 1..Len(simplified_blocks) :
        LET rec == simplified_blocks[j]
            block == page_blocks[j]
        IN  /\ rec.type = TypeOf(block)
            /\ TypeOf(block) \in TextKinds =>
                  rec.content = PlainTexts(SpansOf(block), Len(SpansOf(block)))

\* C24 happens: a block with two spans gives "ab", a block whose first span
\* has no plain text gives the text of its second span, and a block of
\* unknown kind keeps its type.
C24_Witness ==
    /\ flat_pc = "done"
    /\ \E a, b, c \in 1..Len(simplified_blocks) :
          /\ Len(SpansOf(page_blocks[a])) = 2
          /\ simplified_blocks[a] = [type |-> "toggle", content |-> <<"a", "b">>]
          /\ Len(SpansOf(page_blocks[b])) = 2
          /\ "plain_text" \notin DOMAIN SpansOf(page_blocks[b])[1]
          /\ simplified_blocks[b].content = <<"c">>
          /\ simplified_blocks[c].type = "image"

\* C28: a value that an unforced get_page or get_block_children returns
\* without calling the remote service is the value of the last put of the
\* key, and that put was made less than 24 hours before the call.
C28_BoundedStaleness ==
    (IsGetOrFetch /\ ~ret.force /\ ret.fetch = "none"
        /\ ret.end.outcome = "return")
        => /\ ret.was.put
           /\ now - ret.was.at < TTL
           /\ ret.end = Return(Some(ret.was.val))
           /\ PreFile = JsonFile(ret.was.val, isoformat(ret.was.at))

\* C28 happens: a value put 23 hours ago is served from the cache without a
\* call of the remote service.
C28_Witness ==
    /\ IsGetOrFetch /\ ~ret.force /\ ret.fetch = "none"
    /\ ret.was.put /\ now - ret.was.at = TTL - 1
    /\ ret.end = Return(Some(ret.was.val))
    /\ ret.was.val # << >>

\* C26 as stated: update_cache succeeds and the entry is stored, whether or
\* not the cache directory was there when it was called.
C26_PutMakesDirectory ==
    ret.op = "update_cache"
        => /\ ret.end = Return(None)
           /\ dir_exists
           /\ PostFile = JsonFile(ret.body, isoformat(now))

\* C26: the cache directory is made when the cache object is constructed;
\* update_cache stores the entry when the directory is there, and raises
\* FileNotFoundError, storing nothing and making no directory, when it is
\* not.
C26_PutNeedsDirectory ==
    ret.op = "update_cache"
        => IF ret.dir
           THEN /\ ret.end = Return(None)
                /\ dir_exists
                /\ PostFile = JsonFile(ret.body, isoformat(now))
           ELSE /\ ret.end = Raise("FileNotFoundError")
                /\ ~dir_exists
                /\ files = ret.pre
                /\ PostFile = NoFile

\* C26 happens: update_cache is called after the directory was removed and
\* raises; the directory is still missing and no entry is stored.
C26_Witness ==
    /\ ret.op = "update_cache"
    /\ ~ret.dir /\ ~dir_exists
    /\ ret.end = Raise("FileNotFoundError")
    /\ \A q \in Paths : files[q] = NoFile

\* A step of the simplification: the loop moves, ends or starts again.
FlatStep ==
    \/ flat_pc' # flat_pc
    \/ flat_i' # flat_i
    \/ simplified_blocks' # simplified_blocks

----------------------------------------------------------------------------
(* The claims about the work blocks *)

\* The event e and the lunch break have a minute in common.
OverlapsLunch(e) ==
    LET lo == IF e.start <= e.end THEN e.start ELSE e.end
        hi == IF e.start <= e.end THEN e.end ELSE e.start
    IN  lo < work_args.lunch_end * 60 /\ hi > work_args.lunch_start * 60

\* C29: no created work block overlaps the time from lunch_start:00 to
\* lunch_end:00, and every created block starts at or after start_hour:00
\* and before end_hour:00.
C29_LunchIsFree ==
    \A n \in 1..Len(created_events) :
        /\ ~OverlapsLunch(created_events[n])
        /\ created_events[n].start >= work_args.start_hour * 60
        /\ created_events[n].start < work_args.end_hour * 60

\* C30: create_work_blocks comes to its end, and until then every turn of
\* the loop, the lunch skip too, moves current_time forward; the events
\* are fewer than the minutes between start_hour and end_hour.
C30_Terminates ==
    /\ <>(work_pc = "done")
    /\ [][(work_pc = "loop" /\ work_pc' = "loop")
            => /\ current_time' > current_time
               /\ current_time < end_time(work_args)]_vars
    /\ [](Len(created_events)
            <= (work_args.end_hour - work_args.start_hour) * 60
          \/ Len(created_events) = 0)

\* C30 happens: a day with a lunch skip and a block of negative length has
\* been planned to its end.
C30_Witness ==
    /\ work_pc = "done"
    /\ work_args.block_duration < 0
    /\ work_args.start_hour = work_args.lunch_start
    /\ Len(created_events) > 1
    /\ created_events[1].start = work_args.lunch_end * 60

====
